---- MODULE Spec2Model ----
(***************************************************************************)
(* Phantasmagoria front end: the bounded conversational memory             *)
(* (memory_handler.Memory_Handler), its two eviction strategies, and the   *)
(* generation handlers of the Discord and terminal providers that mutate   *)
(* the transcript.                                                         *)
(*                                                                         *)
(* Text is a sequence of one-character strings.  The tokenizer is an       *)
(* external collaborator (transformers.AutoTokenizer); it is modelled as a *)
(* greedy longest-match vocabulary tokenizer with one merged piece, so     *)
(* that token counts are not additive over concatenation, and one special  *)
(* token that decode(skip_special_tokens=True) drops.                      *)
(***************************************************************************)
EXTENDS Integers, Sequences, FiniteSets, TLC

VARIABLES
    chat_history,        \* Memory_Handler.chat_history: list of strings
    max_length,          \* Memory_Handler.max_length
    extra_budget,        \* Memory_Handler.extra_budget
    memory_cycler_type,  \* Memory_Handler.memory_cycler_type
    prompt,              \* Memory_Handler.prompt (prompt_tensor is encode(prompt))
    op,                  \* the method or handler that ran last (or is running)
    ret,                 \* how it ended: "none", the exception raised, or the
                         \* outcome of its generation request
    prev,                \* chat_history when the method started; for a handler
                         \* that makes a request, chat_history just before its
                         \* placeholder was appended
    provider_type,       \* provider_settings provider_type
    pc,                  \* "idle", "requested" (a handler has sent its payload
                         \* and waits for request_generation) or "exited"
    bot_response,        \* what request_generation returned to the handler
    conditional_response, \* Discord_Provider.conditional_response
    serial_chat_history, \* serial_settings['chat_history'] of the request in
                         \* flight, <<>> when there is none
    tasks,               \* the handler coroutines of the event loop: where each
                         \* one is suspended (used when handlers interleave)
    channels_served,     \* the chat channels whose handlers have worked on
                         \* self.memories.chat_history (kept when handlers
                         \* interleave)
    load_status,         \* how POST /load ended when the provider was built
    embed_fields,        \* the fields of the embed the last command sent,
                         \* <<>> once anything else has run
    logged               \* what the last call of a Memory_Handler method
                         \* logged or printed, in order

vars == <<chat_history, max_length, extra_budget, memory_cycler_type, prompt,
          op, ret, prev, provider_type, pc, bot_response,
          conditional_response, serial_chat_history, tasks,
          channels_served, load_status, embed_fields, logged>>

config == <<extra_budget, memory_cycler_type, prompt, provider_type,
            conditional_response, load_status>>

----------------------------------------------------------------------------
(* Bounds of the model *)

\* most entries chat_history holds, the prompt included
MaxHist == 4
\* max_length ranges over 0..MaxLength
MaxLength == 7
\* extra_budget ranges over 0..MaxExtra
MaxExtra == 2
\* most characters the concatenated transcript holds when a message is appended
MaxChars == 12
\* most entries chat_history holds in a provider session, the prompt included
MaxSessionHist == 4
\* most entries chat_history holds when handlers interleave
MaxAsyncHist == 5

\* the handler coroutines that can be pending at once
Tasks == {1, 2}
IdleTask == [pc |-> "idle"]

\* the chat channels the bot can see
Channels == {1, 2}

----------------------------------------------------------------------------
(* The tokenizer *)

\* The vocabulary: token id i stands for the piece Vocab[i].  The piece "hi"
\* is a merge, as in a BPE vocabulary.
Vocab == << <<"P">>, <<"U">>, <<"B">>, <<":">>, <<" ">>, <<"h">>, <<"i">>,
            <<"\n">>, <<"h", "i">> >>

\* The end-of-text token: a special token, dropped by skip_special_tokens.
EosToken == Len(Vocab) + 1

IsPrefix(p, s) == Len(p) <= Len(s) /\ SubSeq(s, 1, Len(p)) = p

\* The longest vocabulary piece that starts the text s.
LongestPiece(s) ==
    CHOOSE i \in 1..Len(Vocab) :
        /\ IsPrefix(Vocab[i], s)
        /\ \A j \in 1..Len(Vocab) : IsPrefix(Vocab[j], s) => Len(Vocab[j]) <= Len(Vocab[i])

\* tokenizer.encode(text): no special tokens are added.
RECURSIVE encode(_)
encode(s) ==
    IF s = <<>> THEN <<>>
    ELSE LET i == LongestPiece(s)
         IN <<i>> \o encode(SubSeq(s, Len(Vocab[i]) + 1, Len(s)))

\* tokenizer.decode(tokens, skip_special_tokens=True)
RECURSIVE decode(_)
decode(t) ==
    IF t = <<>> THEN <<>>
    ELSE (IF Head(t) = EosToken THEN <<>> ELSE Vocab[Head(t)]) \o decode(Tail(t))

\* ''.join(list)
RECURSIVE Join(_)
Join(l) == IF l = <<>> THEN <<>> ELSE Head(l) \o Join(Tail(l))

\* str.split('\n'): the pieces between newlines, the newlines dropped; a
\* trailing newline leaves a final empty string.
RECURSIVE Split(_)
Split(s) ==
    IF \A k \in 1..Len(s) : s[k] # "\n" THEN <<s>>
    ELSE LET k == CHOOSE k \in 1..Len(s) :
                      s[k] = "\n" /\ \A j \in 1..(k - 1) : s[j] # "\n"
         IN <<SubSeq(s, 1, k - 1)>> \o Split(SubSeq(s, k + 1, Len(s)))

abs(x) == IF x < 0 THEN -x ELSE x

\* a_prompt_tensor.size(dim=1) for prompt_tensor = tokenizer.encode(prompt)
prompt_tensor_size == Len(encode(prompt))

\* the token count of the concatenated entries of a list
token_count(l) == Len(encode(Join(l)))

----------------------------------------------------------------------------
(* front_end_utils: the serialisation of a token list (JSON, then base64,   *)
(* then JSON again) and its inverse.  Bytes are integers 0..255.            *)

Digits == <<"0", "1", "2", "3", "4", "5", "6", "7", "8", "9">>

\* str(n) for n >= 0
RECURSIVE int_to_str(_)
int_to_str(n) ==
    IF n < 10 THEN <<Digits[n + 1]>>
    ELSE int_to_str(n \div 10) \o <<Digits[(n % 10) + 1]>>

\* json.dumps(list of int): "[1, 2, 3]", items separated by ", "
RECURSIVE json_items(_)
json_items(t) ==
    IF t = <<>> THEN <<>>
    ELSE IF Len(t) = 1 THEN int_to_str(t[1])
    ELSE int_to_str(t[1]) \o <<",", " ">> \o json_items(Tail(t))

json_dumps_list(t) == <<"[">> \o json_items(t) \o <<"]">>

\* json.dumps(str) for a string with nothing to escape: the string in quotes
json_dumps_str(str) == <<"\"">> \o str \o <<"\"">>

\* ord(c) for the characters of a dumped list
ord(c) ==
    CASE c = "[" -> 91
      [] c = "]" -> 93
      [] c = "," -> 44
      [] c = " " -> 32
      [] OTHER -> 47 + (CHOOSE d \in 1..10 : Digits[d] = c)

\* chr(b): the inverse of ord; "?" for any other byte
chr(b) ==
    CASE b = 91 -> "["
      [] b = 93 -> "]"
      [] b = 44 -> ","
      [] b = 32 -> " "
      [] b \in 48..57 -> Digits[b - 47]
      [] OTHER -> "?"

\* bytes(str, encoding='utf-8') and bytes.decode("utf-8") on ASCII text
str_to_bytes(str) == [k \in 1..Len(str) |-> ord(str[k])]
bytes_to_str(b) == [k \in 1..Len(b) |-> chr(b[k])]

\* the base64 alphabet
B64Alphabet ==
    << "A", "B", "C", "D", "E", "F", "G", "H", "I", "J", "K", "L", "M",
       "N", "O", "P", "Q", "R", "S", "T", "U", "V", "W", "X", "Y", "Z",
       "a", "b", "c", "d", "e", "f", "g", "h", "i", "j", "k", "l", "m",
       "n", "o", "p", "q", "r", "s", "t", "u", "v", "w", "x", "y", "z",
       "0", "1", "2", "3", "4", "5", "6", "7", "8", "9", "+", "/" >>

B64Chars == {B64Alphabet[k] : k \in 1..Len(B64Alphabet)}

B64Char(sextet) == B64Alphabet[sextet + 1]
B64Index(c) == (CHOOSE k \in 1..Len(B64Alphabet) : B64Alphabet[k] = c) - 1

\* base64.b64encode(bytes).decode("utf-8")
RECURSIVE b64encode(_)
b64encode(b) ==
    IF b = <<>> THEN <<>>
    ELSE IF Len(b) = 1
    THEN <<B64Char(b[1] \div 4), B64Char((b[1] % 4) * 16), "=", "=">>
    ELSE IF Len(b) = 2
    THEN <<B64Char(b[1] \div 4), B64Char((b[1] % 4) * 16 + b[2] \div 16),
           B64Char((b[2] % 16) * 4), "=">>
    ELSE <<B64Char(b[1] \div 4), B64Char((b[1] % 4) * 16 + b[2] \div 16),
           B64Char((b[2] % 16) * 4 + b[3] \div 64), B64Char(b[3] % 64)>>
         \o b64encode(SubSeq(b, 4, Len(b)))

\* the bytes of a sequence of sextets whose length is not 1 modulo 4
RECURSIVE sextets_to_bytes(_)
sextets_to_bytes(x) ==
    IF Len(x) < 2 THEN <<>>
    ELSE IF Len(x) = 2 THEN <<x[1] * 4 + x[2] \div 16>>
    ELSE IF Len(x) = 3
    THEN <<x[1] * 4 + x[2] \div 16, (x[2] % 16) * 16 + x[3] \div 4>>
    ELSE <<x[1] * 4 + x[2] \div 16, (x[2] % 16) * 16 + x[3] \div 4,
           (x[3] % 4) * 64 + x[4]>>
         \o sextets_to_bytes(SubSeq(x, 5, Len(x)))

InAlphabet(c) == c \in B64Chars
IsPad(c) == c = "="

\* base64.b64decode(str) with validate=True: a character outside the
\* alphabet raises binascii.Error
b64decode_validating(str) ==
    LET data == SelectSeq(str, InAlphabet)
        pads == Len(SelectSeq(str, IsPad))
    IN IF Len(data) + pads # Len(str) \/ (Len(data) + pads) % 4 # 0
       THEN [raised |-> "binascii.Error", value |-> <<>>]
       ELSE [raised |-> "none",
             value |-> sextets_to_bytes([k \in 1..Len(data) |-> B64Index(data[k])])]

\* base64.b64decode(str), validate=False: the characters outside the
\* alphabet are discarded before the padding check
b64decode(str) ==
    LET data == SelectSeq(str, InAlphabet)
        pads == Len(SelectSeq(str, IsPad))
    IN IF (Len(data) + pads) % 4 # 0
       THEN [raised |-> "binascii.Error", value |-> <<>>]
       ELSE [raised |-> "none",
             value |-> sextets_to_bytes([k \in 1..Len(data) |-> B64Index(data[k])])]

IsDigit(c) == \E d \in 1..10 : Digits[d] = c

\* int(str) for a string of digits
RECURSIVE str_to_int(_)
str_to_int(str) ==
    IF str = <<>> THEN 0
    ELSE 10 * str_to_int(SubSeq(str, 1, Len(str) - 1))
         + (CHOOSE d \in 1..10 : Digits[d] = str[Len(str)]) - 1

\* the items of the inside of a JSON list of non-negative integers
RECURSIVE json_parse_items(_, _)
json_parse_items(str, digits) ==
    IF str = <<>> THEN (IF digits = <<>> THEN <<>> ELSE <<str_to_int(digits)>>)
    ELSE IF IsDigit(Head(str)) THEN json_parse_items(Tail(str), Append(digits, Head(str)))
    ELSE IF Head(str) = "," THEN <<str_to_int(digits)>> \o json_parse_items(Tail(str), <<>>)
    ELSE json_parse_items(Tail(str), digits)

\* json.loads of the text of a list of integers
json_loads(str) ==
    IF Len(str) >= 2 /\ str[1] = "[" /\ str[Len(str)] = "]"
    THEN [raised |-> "none",
          value |-> json_parse_items(SubSeq(str, 2, Len(str) - 1), <<>>)]
    ELSE [raised |-> "JSONDecodeError", value |-> <<>>]

get_encoded_str_from_token_list(a_message) ==
    json_dumps_str(b64encode(str_to_bytes(json_dumps_list(a_message))))

decode_encoded_tokenized_tensor(a_encoded_tokens) ==
    LET partial_decoded_history == b64decode(a_encoded_tokens)
    IN IF partial_decoded_history.raised # "none" THEN partial_decoded_history
       ELSE json_loads(bytes_to_str(partial_decoded_history.value))

\* Memory_Handler.get_encoded_chat_history
get_encoded_chat_history(hist) ==
    get_encoded_str_from_token_list(encode(Join(hist)))

----------------------------------------------------------------------------
(* The strings the providers put in the transcript *)

\* provider_settings user_name / bot_name
user_name == <<"U">>
bot_name == <<"B">>

\* what a user types
Contents == { <<"h">>, <<"h", "i">> }

\* user_message = author.name + ": " + content + "\n"
user_message(content) == user_name \o <<":", " ">> \o content \o <<"\n">>

\* the placeholder turns: bot_name + ":" and user_name + ":"
bot_placeholder == bot_name \o <<":">>
user_placeholder == user_name \o <<":">>

\* bot_name + ": " + detokenized_bot_message
bot_entry(text) == bot_name \o <<":", " ">> \o text

\* the configured prompts
Prompts == { <<"P", "P">> }

\* the messages handed to append_message
Messages == { user_message(<<"h", "i">>), bot_placeholder, bot_entry(<<"h">>) }

----------------------------------------------------------------------------
(* Memory_Handler.  Each method is an operator from the list it is given to *)
(* the list it leaves behind (hist) and the exception it raised, if any.    *)

Result(hist, raised) == [hist |-> hist, raised |-> raised]

\* sentence_loop with the guard len(a_chat_history) > 1: the newest entry is
\* never removed.
RECURSIVE sentence_loop_keeps_newest(_, _, _, _)
sentence_loop_keeps_newest(a_max_length, rest, a_prompt_size, a_extra_budget) ==
    IF token_count(rest) + a_prompt_size > a_max_length - a_extra_budget /\ Len(rest) > 1
    THEN sentence_loop_keeps_newest(a_max_length, Tail(rest), a_prompt_size, a_extra_budget)
    ELSE rest

\* sentence_loop with `if` for `while`: one entry at most is removed per call.
sentence_loop_single_removal(a_max_length, rest, a_prompt_size, a_extra_budget) ==
    IF token_count(rest) + a_prompt_size > a_max_length - a_extra_budget /\ Len(rest) > 0
    THEN Tail(rest)
    ELSE rest

\* sentence_loop with pop() for pop(0): the newest entry is removed.
RECURSIVE sentence_loop_pops_newest(_, _, _, _)
sentence_loop_pops_newest(a_max_length, rest, a_prompt_size, a_extra_budget) ==
    IF token_count(rest) + a_prompt_size > a_max_length - a_extra_budget /\ Len(rest) > 0
    THEN sentence_loop_pops_newest(a_max_length, SubSeq(rest, 1, Len(rest) - 1),
                                   a_prompt_size, a_extra_budget)
    ELSE rest

\* The while loop of memory_cycle_by_sentence: the oldest entry is popped
\* while the measured size is over the budget and an entry is left.
RECURSIVE sentence_loop(_, _, _, _)
sentence_loop(a_max_length, rest, a_prompt_size, a_extra_budget) ==
    IF token_count(rest) + a_prompt_size > a_max_length - a_extra_budget /\ Len(rest) > 0
    THEN sentence_loop(a_max_length, Tail(rest), a_prompt_size, a_extra_budget)
    ELSE rest

memory_cycle_by_sentence(a_max_length, a_chat_history, a_prompt_size, a_extra_budget) ==
    IF a_chat_history = <<>>
    THEN Result(a_chat_history, "IndexError")    \* a_chat_history.pop(0) on an empty list
    ELSE LET original_prompt == Head(a_chat_history)
             rest == Tail(a_chat_history)
         IN Result(<<original_prompt>>
                     \o sentence_loop(a_max_length, rest, a_prompt_size, a_extra_budget),
                   "none")

\* memory_cycle_by_token without a_chat_history.clear() (line 159)
memory_cycle_by_token_without_clear(a_max_length, a_chat_history, a_prompt_size, a_extra_budget) ==
    IF a_chat_history = <<>>
    THEN Result(a_chat_history, "IndexError")
    ELSE LET chat_history_tensor == encode(Join(Tail(a_chat_history)))
             start_of_truncated_history == abs(a_max_length - a_prompt_size)
         IN IF Len(chat_history_tensor) + a_prompt_size > a_max_length - a_extra_budget
            THEN IF Len(chat_history_tensor) < start_of_truncated_history
                 THEN Result(Tail(a_chat_history), "RuntimeError")
                 ELSE Result(a_chat_history
                               \o Split(decode(SubSeq(chat_history_tensor,
                                                      start_of_truncated_history + 1,
                                                      Len(chat_history_tensor)))),
                             "none")
            ELSE Result(a_chat_history, "none")

memory_cycle_by_token(a_max_length, a_chat_history, a_prompt_size, a_extra_budget) ==
    IF a_chat_history = <<>>
    THEN Result(a_chat_history, "IndexError")    \* a_chat_history.pop(0) on an empty list
    ELSE LET original_prompt == Head(a_chat_history)
             chat_history_tensor == encode(Join(Tail(a_chat_history)))
             chat_history_tensor_size == Len(chat_history_tensor)
             start_of_truncated_history == abs(a_max_length - a_prompt_size)
             distance_for_truncated_history ==
                 chat_history_tensor_size - start_of_truncated_history
             \* torch.narrow(chat_history_tensor, 1, start, distance)
             truncated_chat_history_tensor ==
                 SubSeq(chat_history_tensor, start_of_truncated_history + 1,
                        start_of_truncated_history + distance_for_truncated_history)
         IN IF chat_history_tensor_size + a_prompt_size > a_max_length - a_extra_budget
            THEN IF distance_for_truncated_history < 0
                 \* torch.narrow raises on a negative length, after
                 \* a_chat_history.clear() and before the prompt is put back
                 THEN Result(<<>>, "RuntimeError")
                 ELSE Result(<<original_prompt>>
                               \o Split(decode(truncated_chat_history_tensor)),
                             "none")
            \* the list was cleared before the test: only the prompt is put back
            ELSE Result(<<original_prompt>>, "none")

\* dispatch_memory_cycler with by_sentence as the branch taken by default
dispatch_defaults_to_by_sentence(cycler, a_max_length, hist, a_prompt_size, a_extra_budget) ==
    IF cycler = "by_token"
    THEN Result(hist, "AttributeError")
    ELSE memory_cycle_by_sentence(a_max_length, hist, a_prompt_size, a_extra_budget)

\* dispatch_memory_cycler on the list hist.  The by_token branch reads
\* self.extra_budge, an attribute that does not exist, before the call.
dispatch_memory_cycler(cycler, a_max_length, hist, a_prompt_size, a_extra_budget) ==
    IF cycler = "by_sentence"
    THEN memory_cycle_by_sentence(a_max_length, hist, a_prompt_size, a_extra_budget)
    ELSE IF cycler = "by_token"
    THEN Result(hist, "AttributeError")
    ELSE Result(hist, "none")

append_message(cycler, a_max_length, hist, a_prompt_size, a_extra_budget, a_message) ==
    dispatch_memory_cycler(cycler, a_max_length, Append(hist, a_message),
                           a_prompt_size, a_extra_budget)

\* What the eviction passes log.  logging.critical when the prompt is larger
\* than a_max_length; in the loop of memory_cycle_by_sentence, a printed
\* warning before a removal made with 2 entries or 1 entry left.
Critical == [event |-> "critical"]
Removal(n, printed) == [event |-> "removal", remaining |-> n, warned |-> printed]

critical_log(a_max_length, a_prompt_size) ==
    IF a_prompt_size > a_max_length THEN <<Critical>> ELSE <<>>

\* the if/elif of the loop with the second branch left out
warns_before_removal_of_two_only(n) == n = 2

\* the if/elif of the loop: len(a_chat_history) == 2, elif == 1
warns_before_removal(n) == n = 2 \/ n = 1

\* the loop without `and len(a_chat_history) > 0`: one more pop is tried on
\* the empty list
RECURSIVE sentence_loop_log_without_guard(_, _, _, _)
sentence_loop_log_without_guard(a_max_length, rest, a_prompt_size, a_extra_budget) ==
    IF token_count(rest) + a_prompt_size > a_max_length - a_extra_budget
    THEN IF rest = <<>>
         THEN <<Removal(0, FALSE)>>
         ELSE <<Removal(Len(rest), warns_before_removal(Len(rest)))>>
                  \o sentence_loop_log_without_guard(a_max_length, Tail(rest),
                                                     a_prompt_size, a_extra_budget)
    ELSE <<>>

RECURSIVE sentence_loop_log(_, _, _, _)
sentence_loop_log(a_max_length, rest, a_prompt_size, a_extra_budget) ==
    IF token_count(rest) + a_prompt_size > a_max_length - a_extra_budget /\ Len(rest) > 0
    THEN <<Removal(Len(rest), warns_before_removal(Len(rest)))>>
             \o sentence_loop_log(a_max_length, Tail(rest), a_prompt_size, a_extra_budget)
    ELSE <<>>

memory_cycle_by_sentence_log(a_max_length, a_chat_history, a_prompt_size, a_extra_budget) ==
    IF a_chat_history = <<>>
    THEN <<>>
    ELSE critical_log(a_max_length, a_prompt_size)
             \o sentence_loop_log(a_max_length, Tail(a_chat_history), a_prompt_size,
                                  a_extra_budget)

memory_cycle_by_token_log(a_max_length, a_chat_history, a_prompt_size, a_extra_budget) ==
    IF a_chat_history = <<>>
    THEN <<>>
    ELSE critical_log(a_max_length, a_prompt_size)

append_message_log(cycler, a_max_length, hist, a_prompt_size, a_extra_budget, a_message) ==
    IF cycler = "by_sentence"
    THEN memory_cycle_by_sentence_log(a_max_length, Append(hist, a_message),
                                      a_prompt_size, a_extra_budget)
    ELSE <<>>


\* clear_all_memories without self.chat_history.append(self.prompt)
clear_all_memories_leaves_empty(a_prompt) == Result(<<>>, "none")

\* clear_all_memories: the list is cleared and the prompt appended
clear_all_memories(a_prompt) == Result(<<a_prompt>>, "none")

\* pop_memory that removes nothing
pop_memory_keeps_list(hist) == Result(hist, "none")

\* pop_memory(a_index = -1): list.pop(-1)
pop_memory(hist) ==
    IF hist = <<>> THEN Result(hist, "IndexError")
    ELSE Result(SubSeq(hist, 1, Len(hist) - 1), "none")

----------------------------------------------------------------------------
(* Provider.request_generation and Discord_Provider.validate_generation *)

\* the non-2xx statuses the backend answers with
HttpStatuses == {400, 500}

\* the tokens a backend generates: "h", and a lone end-of-text token
Generations == { encode(<<"h">>), <<EosToken>> }

\* What the POST to /generate can do: raise requests.Timeout, raise another
\* RequestException, raise some other exception, answer a non-2xx status (with
\* or without a JSON body), or answer 2xx with a JSON body that is null, a
\* blank string, or the encoded token list.
BackendReplies ==
    [kind : {"timeout", "connection_error", "other_exception"}]
    \cup [kind : {"http_error"}, status : HttpStatuses, json_body : BOOLEAN]
    \cup [kind : {"null", "blank"}]
    \cup [kind : {"tokens"}, tokens : Generations]

\* values of the handlers' bot_response
NoResponse == [type |-> "unset"]
IntCode(n) == [type |-> "int", val |-> n]
NoneValue == [type |-> "NoneType"]
BlankStr == [type |-> "str", blank |-> TRUE, tokens |-> <<>>]
EncodedStr(t) == [type |-> "str", blank |-> FALSE, tokens |-> t]
RaisedInRequest == [type |-> "raised"]

\* request_generation: the value returned, or RaisedInRequest when the call
\* itself raises.  On HTTPError the handler reads http_exception.code, which
\* requests' HTTPError does not have; a status with a body that is not JSON
\* fails earlier, in bot_response.json(), with a RequestException.
request_generation(reply) ==
    CASE reply.kind = "timeout" -> IntCode(0)
      [] reply.kind = "connection_error" -> IntCode(-1)
      [] reply.kind = "other_exception" -> IntCode(-2)
      [] reply.kind = "http_error" -> IF reply.json_body THEN RaisedInRequest ELSE IntCode(-1)
      [] reply.kind = "null" -> NoneValue
      [] reply.kind = "blank" -> BlankStr
      [] reply.kind = "tokens" -> EncodedStr(reply.tokens)

\* the outcome of the request, in the terms of the error taxonomy
Outcome(reply) ==
    CASE reply.kind = "timeout" -> "timeout"
      [] reply.kind = "connection_error" -> "transport_error"
      [] reply.kind = "other_exception" -> "generic_error"
      [] reply.kind = "http_error" -> "http_error"
      [] reply.kind \in {"null", "blank"} -> "empty_output"
      [] reply.kind = "tokens" -> "succeeded"

\* validate_generation without the clear of line 741
validate_generation_never_clears(a_generation, a_is_message, hist, a_prompt) ==
    [valid |-> a_generation.type = "str" /\ ~a_generation.blank, hist |-> hist]

\* validate_generation clearing for an Interaction as for a Message
validate_generation_always_clears(a_generation, a_is_message, hist, a_prompt) ==
    IF a_generation.type = "int"
    THEN [valid |-> FALSE, hist |-> hist]
    ELSE IF a_generation.type = "NoneType" \/ a_generation.blank
    THEN [valid |-> FALSE, hist |-> clear_all_memories(a_prompt).hist]
    ELSE [valid |-> TRUE, hist |-> hist]

\* validate_generation: whether the generation is valid, and the transcript it
\* leaves.  An int is an error code; None or a blank string clears the
\* memories when a discord.Message was passed, not for an Interaction.
validate_generation(a_generation, a_is_message, hist, a_prompt) ==
    IF a_generation.type = "int"
    THEN [valid |-> FALSE, hist |-> hist]
    ELSE IF a_generation.type = "NoneType" \/ a_generation.blank
    THEN [valid |-> FALSE,
          hist |-> IF a_is_message THEN clear_all_memories(a_prompt).hist ELSE hist]
    ELSE [valid |-> TRUE, hist |-> hist]

\* decode_encoded_tokenized_tensor then detokenize_decoded_message
detokenized_bot_message(a_generation) == decode(a_generation.tokens)

----------------------------------------------------------------------------
(* The Memory_Handler on its own: any sequence of calls of its methods *)

CyclerTypes == {"none", "by_sentence", "by_token"}

\* Memory_Handler.__init__: the settings are loaded, chat_history = [prompt].
\* Settings_Handler.check_if_prompt_larger_than_max has let the prompt pass.
MemInit ==
    /\ prompt \in Prompts
    /\ max_length \in 0..MaxLength
    /\ prompt_tensor_size <= max_length
    /\ extra_budget \in 0..MaxExtra
    /\ memory_cycler_type \in CyclerTypes
    /\ chat_history = <<prompt>>
    /\ op = "init"
    /\ ret = "none"
    /\ prev = <<prompt>>
    /\ provider_type = "none"
    /\ conditional_response = FALSE
    /\ load_status = "loaded"
    /\ pc = "idle"
    /\ bot_response = NoResponse
    /\ serial_chat_history = <<>>
    /\ tasks = [t \in Tasks |-> IdleTask]
    /\ channels_served = {}
    /\ embed_fields = <<>>
    /\ logged = <<>>

\* a call that ends as r says
Call(r, log) ==
    /\ prev' = chat_history
    /\ chat_history' = r.hist
    /\ ret' = r.raised
    /\ logged' = log
    /\ serial_chat_history' = <<>>
    /\ embed_fields' = <<>>
    /\ UNCHANGED <<max_length, config, pc, bot_response, tasks, channels_served>>

MemAppend ==
    /\ Len(chat_history) < MaxHist
    /\ \E m \in Messages :
          /\ Len(Join(chat_history)) + Len(m) <= MaxChars
          /\ op' = "append_message"
          /\ Call(append_message(memory_cycler_type, max_length, chat_history,
                                 prompt_tensor_size, extra_budget, m),
                  append_message_log(memory_cycler_type, max_length, chat_history,
                                     prompt_tensor_size, extra_budget, m))

MemCycleBySentence ==
    /\ op' = "memory_cycle_by_sentence"
    /\ Call(memory_cycle_by_sentence(max_length, chat_history, prompt_tensor_size,
                                     extra_budget),
            memory_cycle_by_sentence_log(max_length, chat_history,
                                         prompt_tensor_size, extra_budget))

MemCycleByToken ==
    /\ op' = "memory_cycle_by_token"
    /\ Call(memory_cycle_by_token(max_length, chat_history, prompt_tensor_size,
                                  extra_budget),
            memory_cycle_by_token_log(max_length, chat_history,
                                      prompt_tensor_size, extra_budget))

MemClear ==
    /\ op' = "clear_all_memories"
    /\ Call(clear_all_memories(prompt), <<>>)

MemPop ==
    /\ op' = "pop_memory"
    /\ Call(pop_memory(chat_history), <<>>)

\* change_settings: self.memories.max_length = max_length, any integer
MemSetMaxLength ==
    /\ \E m \in 0..MaxLength : max_length' = m
    /\ op' = "set_max_length"
    /\ ret' = "none"
    /\ prev' = chat_history
    /\ logged' = <<>>
    /\ UNCHANGED <<chat_history, config, pc, bot_response, serial_chat_history,
                   tasks, channels_served, embed_fields>>

MemNext ==
    \/ MemAppend \/ MemCycleBySentence \/ MemCycleByToken \/ MemClear \/ MemPop
    \/ MemSetMaxLength

SpecMem == MemInit /\ [][MemNext]_vars

\* The same without pop_memory: appends, eviction passes and clears only.
EvictNext == MemAppend \/ MemCycleBySentence \/ MemCycleByToken \/ MemClear

SpecEvict == MemInit /\ [][EvictNext]_vars

\* The embed of /display_memories: no field when the list holds fewer than two
\* entries ("No memories in chat history"), else one field per index
\* 1..len-1, named by the index and holding the entry.
display_memories_from_index_zero(hist) ==
    [itr \in 1..Len(hist) |-> [name |-> itr - 1, value |-> hist[itr]]]

display_memories(hist) ==
    IF Len(hist) < 2
    THEN <<>>
    ELSE [itr \in 1..(Len(hist) - 1) |-> [name |-> itr, value |-> hist[itr + 1]]]

\* Memory_Handler.get_encoded_chat_history: the list is joined and tokenized,
\* and stays as it is.
MemGetEncoded ==
    /\ op' = "get_encoded_chat_history"
    /\ ret' = "none"
    /\ prev' = chat_history
    /\ serial_chat_history' = get_encoded_chat_history(chat_history)
    /\ embed_fields' = <<>>
    /\ logged' = <<>>
    /\ UNCHANGED <<chat_history, max_length, config, pc, bot_response, tasks,
                   channels_served>>

\* /display_memories: the list is read into the embed, and stays as it is.
DisplayMemories ==
    /\ op' = "display_memories"
    /\ ret' = "none"
    /\ prev' = chat_history
    /\ serial_chat_history' = <<>>
    /\ embed_fields' = display_memories(chat_history)
    /\ logged' = <<>>
    /\ UNCHANGED <<chat_history, max_length, config, pc, bot_response, tasks,
                   channels_served>>

\* Appends, eviction passes, clears and pops, with the two readers.
ReadNext ==
    MemAppend \/ MemCycleBySentence \/ MemClear \/ MemPop \/ MemGetEncoded
        \/ DisplayMemories

ReadInit == MemInit /\ memory_cycler_type = "by_sentence" /\ extra_budget = 0

SpecRead == ReadInit /\ [][ReadNext]_vars

----------------------------------------------------------------------------
(* A provider session: the handlers of Discord_Provider and the loop of      *)
(* Terminal_Provider.chat, one handler at a time.  A handler that makes a    *)
(* generation request runs in two steps: up to the request (pc becomes       *)
(* "requested"), and from the return of request_generation to its end.       *)

\* the values of max_length a configuration or change_settings gives
MaxLengthChoices == {3, 8, 30}

\* what POST /load can do: answer 2xx, answer an error status, or fail with an
\* exception in requests.post
LoadOutcomes == {"loaded", "error_response", "exception"}

\* Provider.request_load: where the process is after it.  Only an exception
\* of requests.post reaches sys.exit(-1); the response is not looked at.
request_load(outcome) == IF outcome = "exception" THEN "exited" ELSE "idle"

\* Provider.__init__ / Discord_Provider.__init__: the settings are loaded and
\* POST /load ends in one of `outcomes`
Constructed(outcomes) ==
    /\ load_status \in outcomes
    /\ prompt \in Prompts
    /\ max_length \in MaxLengthChoices
    /\ prompt_tensor_size <= max_length
    /\ extra_budget \in 0..MaxExtra
    /\ memory_cycler_type \in CyclerTypes
    /\ provider_type \in {"discord", "terminal"}
    /\ conditional_response \in BOOLEAN
    /\ (provider_type = "terminal" => conditional_response = FALSE)
    /\ chat_history = <<prompt>>
    /\ op = "init"
    /\ ret = "none"
    /\ prev = <<prompt>>
    /\ pc = request_load(load_status)
    /\ bot_response = NoResponse
    /\ serial_chat_history = <<>>
    /\ tasks = [t \in Tasks |-> IdleTask]
    /\ channels_served = {}
    /\ embed_fields = <<>>
    /\ logged = <<>>

\* a provider whose model was loaded
Init == Constructed({"loaded"})

memories_append(hist, a_message) ==
    append_message(memory_cycler_type, max_length, hist, prompt_tensor_size,
                   extra_budget, a_message)

\* send_discord_message up to the request: the user turn and then the
\* placeholder are appended, each with its eviction pass.  `before` is the
\* transcript between the two appends.
send_appends(hist, content) ==
    LET a1 == memories_append(hist, user_message(content))
        a2 == memories_append(a1.hist, bot_placeholder)
    IN IF a1.raised # "none"
       THEN [hist |-> a1.hist, before |-> a1.hist, raised |-> a1.raised]
       ELSE [hist |-> a2.hist, before |-> a1.hist, raised |-> a2.raised]

\* send_discord_message after a valid generation: the last entry is popped
\* and bot_name + ": " + text is appended, with its eviction pass.
commit(hist, a_generation) ==
    memories_append(pop_memory(hist).hist, bot_entry(detokenized_bot_message(a_generation))).hist

\* a handler starts send_discord_message on the transcript hist
StartSend(name, hist, content) ==
    LET s == send_appends(hist, content)
    IN /\ op' = name
       /\ prev' = s.before
       /\ chat_history' = s.hist
       /\ bot_response' = NoResponse
       /\ IF s.raised # "none"
          THEN pc' = "idle" /\ ret' = s.raised /\ serial_chat_history' = <<>>
          ELSE /\ pc' = "requested" /\ ret' = "pending"
               /\ serial_chat_history' = get_encoded_chat_history(s.hist)
       /\ UNCHANGED <<max_length, config, tasks, channels_served,
                   embed_fields, logged>>

\* a handler ends without touching the transcript
EndsUnchanged(name, how) ==
    /\ op' = name
    /\ prev' = chat_history
    /\ ret' = how
    /\ bot_response' = NoResponse
    /\ serial_chat_history' = <<>>
    /\ UNCHANGED <<chat_history, pc, max_length, config, tasks, channels_served,
                   embed_fields, logged>>

\* what the users type in a session
SessionContents == {<<"h", "i">>}

\* the messages on_message sees
IncomingMessages ==
    [author : {"bot"}, is_system : {FALSE}, mentioned : {FALSE},
     reference : {"none"}, nickname : {FALSE}, content : SessionContents]
    \cup [author : {"user"}, is_system : {TRUE}, mentioned : {FALSE},
          reference : {"none"}, nickname : {FALSE}, content : SessionContents]
    \cup [author : {"user"}, is_system : {FALSE}, mentioned : BOOLEAN,
          reference : {"none", "cached_bot", "cached_other", "uncached"},
          nickname : BOOLEAN, content : SessionContents]

\* conditional_responses: "respond", "silent", or the exception raised.
\* discord.Client.get_channel is called on the class with one argument.
conditional_responses(a_message) ==
    IF a_message.mentioned THEN "respond"
    ELSE IF a_message.reference = "uncached" THEN "TypeError"
    ELSE IF a_message.reference = "cached_bot" THEN "respond"
    ELSE IF a_message.nickname THEN "respond"
    ELSE "silent"

\* on_message without the test of a_message.author.id
on_message_filter_without_author_test(a_message) ==
    IF a_message.is_system THEN "ignored"
    ELSE IF conditional_response THEN conditional_responses(a_message)
    ELSE "respond"

\* on_message before send_discord_message: "respond", or how the handler ends
on_message_filter(a_message) ==
    IF a_message.author = "bot" \/ a_message.is_system THEN "ignored"
    ELSE IF conditional_response THEN conditional_responses(a_message)
    ELSE "respond"

\* on_message, up to the request of send_discord_message
OnMessage ==
    /\ provider_type = "discord" /\ pc = "idle"
    /\ Len(chat_history) + 2 <= MaxSessionHist
    /\ \E content \in SessionContents :
       \E decision \in {on_message_filter(m) :
                           m \in {x \in IncomingMessages : x.content = content}} :
          IF decision = "respond"
          THEN StartSend("on_message", chat_history, content)
          ELSE EndsUnchanged("on_message", decision)

\* send_discord_message posting again after a generation that did not succeed
ReplyReturnsAndRetries ==
    /\ pc = "requested" /\ op \in {"on_message", "regenerate_response"}
    /\ \E reply \in BackendReplies :
          /\ bot_response' = request_generation(reply)
          /\ ret' = Outcome(reply)
          /\ pc' = IF reply.kind = "tokens" THEN "idle" ELSE "requested"
    /\ UNCHANGED <<chat_history, serial_chat_history, op, prev, max_length,
                   config, tasks, channels_served, embed_fields, logged>>

\* send_discord_message from the return of request_generation
ReplyReturns ==
    /\ pc = "requested" /\ op \in {"on_message", "regenerate_response"}
    /\ \E reply \in BackendReplies :
          LET g == request_generation(reply)
              v == validate_generation(g, TRUE, chat_history, prompt)
          IN /\ bot_response' = g
             /\ ret' = Outcome(reply)
             /\ chat_history' = IF g = RaisedInRequest THEN chat_history
                                ELSE IF v.valid THEN commit(v.hist, g)
                                ELSE v.hist
    /\ pc' = "idle"
    /\ serial_chat_history' = <<>>
    /\ UNCHANGED <<op, prev, max_length, config, tasks, channels_served,
                   embed_fields, logged>>

\* the autocomplete command, up to the request
Autocomplete ==
    /\ provider_type = "discord" /\ pc = "idle"
    /\ Len(chat_history) + 1 <= MaxSessionHist
    /\ LET a == memories_append(chat_history, user_placeholder)
       IN /\ chat_history' = a.hist
          /\ IF a.raised # "none"
             THEN pc' = "idle" /\ ret' = a.raised /\ serial_chat_history' = <<>>
             ELSE /\ pc' = "requested" /\ ret' = "pending"
                  /\ serial_chat_history' = get_encoded_chat_history(a.hist)
    /\ op' = "autocomplete"
    /\ prev' = chat_history
    /\ bot_response' = NoResponse
    /\ UNCHANGED <<max_length, config, tasks, channels_served,
                   embed_fields, logged>>

\* the autocomplete command from the return of request_generation
AutocompleteReturns ==
    /\ pc = "requested" /\ op = "autocomplete"
    /\ \E reply \in BackendReplies :
          LET g == request_generation(reply)
              v == validate_generation(g, FALSE, chat_history, prompt)
          IN /\ bot_response' = g
             /\ ret' = Outcome(reply)
             /\ chat_history' = IF g = RaisedInRequest THEN chat_history
                                ELSE IF v.valid /\ Len(v.hist) > 1
                                     THEN pop_memory(v.hist).hist
                                ELSE v.hist
    /\ pc' = "idle"
    /\ serial_chat_history' = <<>>
    /\ UNCHANGED <<op, prev, max_length, config, tasks, channels_served,
                   embed_fields, logged>>

\* what the regenerate_response command finds in the channel
ChannelStates == {"last_not_bot", "no_reference", "uncached", "reply_to_other", "reply_to_user"}

\* the regenerate_response command, up to the request
Regenerate ==
    /\ provider_type = "discord" /\ pc = "idle"
    /\ \E channel \in ChannelStates, content \in SessionContents :
          IF Len(chat_history) < 2 THEN EndsUnchanged("regenerate_response", "refused")
          ELSE IF channel = "uncached" THEN EndsUnchanged("regenerate_response", "TypeError")
          ELSE IF channel # "reply_to_user" THEN EndsUnchanged("regenerate_response", "refused")
          ELSE StartSend("regenerate_response",
                         pop_memory(pop_memory(chat_history).hist).hist, content)

\* the clear_memories command
ClearMemories ==
    /\ provider_type = "discord" /\ pc = "idle"
    /\ op' = "clear_memories"
    /\ prev' = chat_history
    /\ ret' = "none"
    /\ chat_history' = clear_all_memories(prompt).hist
    /\ bot_response' = NoResponse
    /\ serial_chat_history' = <<>>
    /\ UNCHANGED <<pc, max_length, config, tasks, channels_served,
                   embed_fields, logged>>

\* change_settings as a command that reloads the whole budget: extra_budget
\* is set along with max_length
ChangeSettingsReloadsBudget ==
    /\ provider_type = "discord" /\ pc = "idle"
    /\ \E m \in MaxLengthChoices : max_length' = m
    /\ \E e \in 0..MaxExtra : extra_budget' = e
    /\ op' = "change_settings"
    /\ prev' = chat_history
    /\ ret' = "none"
    /\ bot_response' = NoResponse
    /\ UNCHANGED <<chat_history, pc, serial_chat_history, memory_cycler_type,
                   prompt, provider_type, conditional_response, load_status,
                   tasks, channels_served,
                   embed_fields, logged>>

\* the change_settings command: self.memories.max_length = max_length
ChangeSettings ==
    /\ provider_type = "discord" /\ pc = "idle"
    /\ \E m \in MaxLengthChoices : max_length' = m
    /\ op' = "change_settings"
    /\ prev' = chat_history
    /\ ret' = "none"
    /\ bot_response' = NoResponse
    /\ serial_chat_history' = <<>>
    /\ UNCHANGED <<chat_history, pc, config, tasks, channels_served,
                   embed_fields, logged>>

\* One pass of the loop of Terminal_Provider.chat on an input that is not
\* "!quit": the input is appended, the history encoded, and
\* json.dumps(serial_settings) reads a local that is not yet bound.
TerminalChat ==
    /\ provider_type = "terminal" /\ pc = "idle"
    /\ \E content \in SessionContents :
          LET a == memories_append(chat_history, user_message(content))
          IN /\ chat_history' = a.hist
             /\ ret' = IF a.raised # "none" THEN a.raised ELSE "UnboundLocalError"
             /\ serial_chat_history' = IF a.raised # "none" THEN <<>>
                                       ELSE get_encoded_chat_history(a.hist)
    /\ op' = "chat"
    /\ prev' = chat_history
    /\ pc' = "exited"
    /\ bot_response' = NoResponse
    /\ UNCHANGED <<max_length, config, tasks, channels_served,
                   embed_fields, logged>>

\* the user types !quit
TerminalQuit ==
    /\ provider_type = "terminal" /\ pc = "idle"
    /\ op' = "chat"
    /\ prev' = chat_history
    /\ ret' = "none"
    /\ pc' = "exited"
    /\ bot_response' = NoResponse
    /\ serial_chat_history' = <<>>
    /\ UNCHANGED <<chat_history, max_length, config, tasks, channels_served,
                   embed_fields, logged>>

Next ==
    \/ OnMessage \/ ReplyReturns
    \/ Autocomplete \/ AutocompleteReturns
    \/ Regenerate
    \/ ClearMemories \/ ChangeSettings
    \/ TerminalChat \/ TerminalQuit

Spec == Init /\ [][Next]_vars

\* a provider of one configuration, whatever POST /load did
LoadInit ==
    /\ Constructed(LoadOutcomes)
    /\ max_length = 30
    /\ extra_budget = 0
    /\ memory_cycler_type = "by_sentence"
    /\ ~conditional_response

SpecLoad == LoadInit /\ [][Next]_vars

\* the generate command, up to the request: the payload is the prompt of the
\* command, not the transcript
Generation ==
    /\ provider_type = "discord" /\ pc = "idle"
    /\ \E a_prompt \in SessionContents :
          serial_chat_history' = get_encoded_str_from_token_list(encode(a_prompt))
    /\ pc' = "requested"
    /\ op' = "generation"
    /\ ret' = "pending"
    /\ prev' = chat_history
    /\ bot_response' = NoResponse
    /\ UNCHANGED <<chat_history, max_length, config, tasks, channels_served,
                   embed_fields, logged>>

\* the generate command from the return of request_generation: the text or
\* the error message is sent to the interaction
GenerationReturns ==
    /\ pc = "requested" /\ op = "generation"
    /\ \E reply \in BackendReplies :
          LET g == request_generation(reply)
              v == validate_generation(g, FALSE, chat_history, prompt)
          IN /\ bot_response' = g
             /\ ret' = Outcome(reply)
             /\ chat_history' = IF g = RaisedInRequest THEN chat_history
                                ELSE v.hist
    /\ pc' = "idle"
    /\ serial_chat_history' = <<>>
    /\ UNCHANGED <<op, prev, max_length, config, tasks, channels_served,
                   embed_fields, logged>>

\* a session with the generate command among the handlers
CommandNext == Next \/ Generation \/ GenerationReturns

CommandInit == LoadInit /\ load_status = "loaded"

SpecCommand == CommandInit /\ [][CommandNext]_vars

----------------------------------------------------------------------------
(* The handlers as coroutines of one event loop.  discord.py starts a task  *)
(* for every event; a task runs until it awaits something that suspends     *)
(* (an HTTP call to Discord), and then any other task may run.              *)
(* request_generation is a blocking requests.post: nothing runs during it.  *)
(* Each action below is one run of a task between two suspensions.          *)

AllIdle(ts) == \A t \in Tasks : ts[t].pc = "idle"

\* One run of task t: what it did to the transcript and where it stops.
\* bot_response is a local of the run and is dead when the run ends; prev is
\* not kept here.
AsyncStep(t, name, how, hist, response, frame, serial) ==
    /\ op' = name
    /\ ret' = how
    /\ chat_history' = hist
    /\ tasks' = [tasks EXCEPT ![t] = frame]
    /\ serial_chat_history' = IF AllIdle(tasks') THEN <<>> ELSE serial
    /\ UNCHANGED <<max_length, pc, prev, bot_response, extra_budget,
                   memory_cycler_type, prompt, provider_type,
                   conditional_response, load_status, embed_fields, logged>>

\* send_discord_message up to `async with a_message.channel.typing()`
AsyncSend(t, name, content) ==
    LET s == send_appends(chat_history, content)
    IN IF s.raised # "none"
       THEN AsyncStep(t, name, s.raised, s.hist, NoResponse, IdleTask,
                      serial_chat_history)
       ELSE AsyncStep(t, name, "pending", s.hist, NoResponse,
                      [pc |-> "typing"],
                      get_encoded_chat_history(s.hist))

\* on_message up to its first suspension after the appends
TaskOnMessage(t) ==
    /\ tasks[t].pc = "idle"
    /\ Len(chat_history) + 2 <= MaxAsyncHist
    /\ \E content \in SessionContents, channel \in Channels :
       \E decision \in {on_message_filter(m) :
                           m \in {x \in IncomingMessages : x.content = content}} :
          IF decision = "respond"
          THEN /\ AsyncSend(t, "on_message", content)
               /\ channels_served' = channels_served \cup {channel}
          ELSE /\ AsyncStep(t, "on_message", decision, chat_history, NoResponse,
                            IdleTask, serial_chat_history)
               /\ UNCHANGED channels_served

\* send_discord_message from the typing indicator on: the request, the
\* validation, and the commit; after an empty output the task awaits
\* a_message.reply before it clears the memories.
TaskResumes(t) ==
    /\ tasks[t].pc = "typing"
    /\ \E reply \in BackendReplies :
          LET g == request_generation(reply)
              valid == g # RaisedInRequest
                       /\ validate_generation(g, TRUE, chat_history, prompt).valid
          IN IF valid
             THEN AsyncStep(t, "send_discord_message", Outcome(reply),
                            commit(chat_history, g), g, IdleTask, serial_chat_history)
             ELSE IF g \in {NoneValue, BlankStr}
             THEN AsyncStep(t, "send_discord_message", Outcome(reply), chat_history,
                            g, [pc |-> "replying"],
                            serial_chat_history)
             ELSE AsyncStep(t, "send_discord_message", Outcome(reply), chat_history,
                            g, IdleTask, serial_chat_history)
    /\ UNCHANGED channels_served

\* validate_generation after `await a_message.reply(...)`: the clear
TaskClearsAfterReply(t) ==
    /\ tasks[t].pc = "replying"
    /\ AsyncStep(t, "validate_generation", "empty_output",
                 clear_all_memories(prompt).hist, NoResponse, IdleTask,
                 serial_chat_history)
    /\ UNCHANGED channels_served

\* the clear_memories command after its defer
TaskClearMemories(t) ==
    /\ tasks[t].pc = "idle"
    /\ AsyncStep(t, "clear_memories", "none", clear_all_memories(prompt).hist,
                 NoResponse, IdleTask, serial_chat_history)
    /\ \E channel \in Channels : channels_served' = channels_served \cup {channel}

\* the autocomplete command after its defer: nothing suspends between the
\* append of the placeholder and its pop
TaskAutocomplete(t) ==
    /\ tasks[t].pc = "idle"
    /\ Len(chat_history) + 1 <= MaxAsyncHist
    /\ \E reply \in BackendReplies :
          LET a == memories_append(chat_history, user_placeholder)
              g == request_generation(reply)
              v == validate_generation(g, FALSE, a.hist, prompt)
          IN IF a.raised # "none"
             THEN AsyncStep(t, "autocomplete", a.raised, a.hist, NoResponse,
                            IdleTask, serial_chat_history)
             ELSE AsyncStep(t, "autocomplete", Outcome(reply),
                            IF g # RaisedInRequest /\ v.valid /\ Len(a.hist) > 1
                            THEN pop_memory(a.hist).hist ELSE a.hist,
                            g, IdleTask, get_encoded_chat_history(a.hist))
    /\ \E channel \in Channels : channels_served' = channels_served \cup {channel}

\* a Discord session that answers every message, with a cycler that
\* append_message can run
AsyncInit ==
    /\ Init
    /\ provider_type = "discord"
    /\ ~conditional_response
    /\ memory_cycler_type # "by_token"
    /\ extra_budget = 0

AsyncNext ==
    \E t \in Tasks :
        \/ TaskOnMessage(t) \/ TaskResumes(t) \/ TaskClearsAfterReply(t)
        \/ TaskClearMemories(t) \/ TaskAutocomplete(t)

SpecAsync == AsyncInit /\ [][AsyncNext]_vars

----------------------------------------------------------------------------
(* Claims about the Memory_Handler *)

\* the transcript fits: non-prompt tokens plus prompt tokens are within
\* max_length - extra_budget
Fits(hist) == token_count(Tail(hist)) + prompt_tensor_size <= max_length - extra_budget

BySentenceRan ==
    \/ op = "memory_cycle_by_sentence"
    \/ op = "append_message" /\ memory_cycler_type = "by_sentence"

\* C1: after any sequence of append_message calls, eviction passes and
\* clear_all_memories calls, chat_history is non-empty and its first entry is
\* the configured prompt.
\* (Stated for the configurations whose prompt fits max_length - extra_budget.)
C1_PromptStaysFirst ==
    prompt_tensor_size <= max_length - extra_budget
    => (chat_history # <<>> /\ chat_history[1] = prompt)

\* C2: pop_memory on a transcript that holds only the prompt fails and leaves
\* chat_history unchanged, so the prompt is never the entry it removes.
C2_PopFailsOnPromptOnly ==
    (op = "pop_memory" /\ Len(prev) = 1) => (ret # "none" /\ chat_history = prev)

\* the handlers that make a generation request against the transcript
MessageReplies == {"on_message", "regenerate_response"}

\* such a handler has handled the return of its request with this outcome
Handled(handlers, outcomes) ==
    pc = "idle" /\ op \in handlers /\ ret \in outcomes

\* C3: when a message reply or an autocomplete has handled a request that
\* ended in Timeout, TransportError, GenericError or HttpError, the
\* placeholder is gone: chat_history equals the transcript just before the
\* placeholder was appended.
C3_FailureRollsBack ==
    Handled(MessageReplies \cup {"autocomplete"},
            {"timeout", "transport_error", "generic_error", "http_error"})
    => chat_history = prev

\* C4 as stated: on every surface (message reply, autocomplete, terminal
\* chat), once an empty or whitespace-only output has been handled,
\* chat_history is exactly [prompt].
C4_EmptyOutputClears ==
    Handled(MessageReplies \cup {"autocomplete", "chat"}, {"empty_output"})
    => chat_history = <<prompt>>

\* C4 amended: once a message reply has handled an empty or whitespace-only
\* output, chat_history is exactly [prompt]; an autocomplete that has handled
\* one leaves the transcript as it was when the request was sent, its
\* placeholder included.
C4_EmptyReplyClears ==
    /\ Handled(MessageReplies, {"empty_output"}) => chat_history = <<prompt>>
    /\ Handled({"autocomplete"}, {"empty_output"})
       => chat_history = memories_append(prev, user_placeholder).hist

C4_Witness ==
    /\ Handled({"on_message"}, {"empty_output"})
    /\ Len(prev) > 2
    /\ chat_history = <<prompt>>

\* C5: when a request has succeeded, the commit has removed exactly the
\* placeholder and put one entry "{speaker}: {text}" in its place:
\* chat_history equals the transcript just before the placeholder was
\* appended, followed by that entry.
C5_CommitReplacesPlaceholder ==
    Handled(MessageReplies \cup {"chat"}, {"succeeded"})
    => chat_history = prev \o <<bot_entry(detokenized_bot_message(bot_response))>>

\* C6: when memory_cycle_by_sentence has returned, the transcript fits
\* max_length - extra_budget or no entry but the first is left.
C6_BySentenceFitsOrExhausted ==
    (BySentenceRan /\ ret = "none") => (Fits(chat_history) \/ Len(chat_history) = 1)

\* a by_sentence pass removed the oldest entry and kept a newer one
C6_Witness ==
    /\ op = "memory_cycle_by_sentence" /\ ret = "none"
    /\ Len(chat_history) > 1 /\ Len(chat_history) < Len(prev)
    /\ chat_history[Len(chat_history)] \in Messages
    /\ ~Fits(prev) /\ Fits(chat_history)

\* C7: when the prompt fits max_length and memory_cycle_by_token has returned,
\* prompt tokens plus retained tokens are within max_length - extra_budget.
\* (Stated for the prompts that also fit max_length - extra_budget, for which
\* the bound can be met.)
C7_ByTokenWithinBudget ==
    (op = "memory_cycle_by_token" /\ ret = "none" /\ prev # <<>>
       /\ prompt_tensor_size <= max_length - extra_budget)
    => Fits(chat_history)

\* C8: memory_cycle_by_sentence applied to its own result changes nothing.
C8_BySentenceIdempotent ==
    (BySentenceRan /\ ret = "none")
    => memory_cycle_by_sentence(max_length, chat_history, prompt_tensor_size, extra_budget)
         = Result(chat_history, "none")

\* a by_sentence pass that removed two entries or more
C8_Witness ==
    /\ op = "memory_cycle_by_sentence" /\ ret = "none"
    /\ Len(chat_history) + 2 <= Len(prev)

\* C9: memory_cycle_by_token applied to its own result changes nothing.
C9_ByTokenIdempotent ==
    (op = "memory_cycle_by_token" /\ ret = "none" /\ prev # <<>>
       /\ prompt_tensor_size <= max_length - extra_budget)
    => memory_cycle_by_token(max_length, chat_history, prompt_tensor_size, extra_budget)
         = Result(chat_history, "none")

\* C10: memory_cycle_by_token on a transcript that already fits returns it
\* entry for entry.
C10_ByTokenNoOpWhenFits ==
    (op = "memory_cycle_by_token" /\ prev # <<>> /\ Fits(prev))
    => (ret = "none" /\ chat_history = prev)

\* the token count of the concatenated entries after the first
NonPreambleCount(hist) == IF hist = <<>> THEN 0 ELSE token_count(Tail(hist))

C12_NoneNeverShrinks ==
    (op = "append_message" /\ memory_cycler_type = "none")
    => /\ ret = "none"
       /\ Len(chat_history) = Len(prev) + 1
       /\ SubSeq(chat_history, 1, Len(prev)) = prev

C12_Witness ==
    /\ op = "append_message" /\ memory_cycler_type = "none"
    /\ Len(prev) >= 2
    /\ ~Fits(prev)
    /\ Len(chat_history) = Len(prev) + 1

\* C13: base64-decoding and JSON-parsing the string get_encoded_chat_history
\* put in a request gives exactly tokenizer.encode(''.join(chat_history)).
C13_EncodedHistoryRoundTrip ==
    serial_chat_history # <<>>
    => decode_encoded_tokenized_tensor(serial_chat_history)
       = [raised |-> "none", value |-> encode(Join(chat_history))]

C13_Witness ==
    /\ pc = "requested"
    /\ Len(chat_history) >= 3
    /\ serial_chat_history = get_encoded_chat_history(chat_history)
    /\ Len(encode(Join(chat_history))) >= 9

\* C14: two generation turns are never interleaved: at most one handler at a
\* time is between the append of its placeholder and the end of its commit
\* or rollback.
C14_TurnsNeverInterleave ==
    Cardinality({t \in Tasks : tasks[t].pc # "idle"}) <= 1

\* C15: the chat_history used to answer one chat channel is never appended
\* to, evicted from or cleared by a turn handled for another channel: the
\* handlers that have worked on a transcript all belong to one channel.
C15_OneChannelPerTranscript ==
    Cardinality(channels_served) <= 1

\* C16: when the backend has answered a non-2xx status, whatever the body,
\* request_generation has returned that status code as an integer.
C16_HttpErrorReturnsStatus ==
    Handled(MessageReplies \cup {"autocomplete"}, {"http_error"})
    => (bot_response.type = "int" /\ bot_response.val \in HttpStatuses)

\* C17: every call of request_generation returns one outcome, classified by
\* its most specific kind: 0 for a timeout, -1 for any other request
\* failure, -2 for any other exception, and for an HTTP error an integer
\* that is none of these three.
C17_OneOutcomePerKind ==
    Handled(MessageReplies \cup {"autocomplete"},
            {"timeout", "transport_error", "generic_error", "http_error"})
    => /\ bot_response.type = "int"
       /\ (ret = "timeout") = (bot_response.val = 0)
       /\ (ret = "transport_error") = (bot_response.val = -1)
       /\ (ret = "generic_error") = (bot_response.val = -2)

\* C18: whatever way a generation request fails (timeout, transport error,
\* generic error, HTTP error, empty output), on Discord or on the terminal,
\* the handler gets an outcome to report, reports it, and the session is
\* ready for the next turn: the process has not exited and no exception has
\* left request_generation.
C18_FailuresAreHandled ==
    (/\ op \in MessageReplies \cup {"autocomplete", "chat"}
     /\ pc # "requested"
     /\ ret \in {"timeout", "transport_error", "generic_error", "http_error",
                 "empty_output"})
    => (pc = "idle" /\ bot_response # RaisedInRequest)

\* C19: a provider whose POST /load did not give a loaded model (exception
\* or error response) stops in its constructor, so no handler of such a
\* session ever has a /generate request in flight.
C19_NoGenerationWithoutModel ==
    load_status # "loaded" => pc # "requested"

\* C20 as stated: no step of a session changes max_length, extra_budget,
\* memory_cycler_type or the prompt.
C20_ConfigNeverChanges ==
    [][UNCHANGED <<max_length, extra_budget, memory_cycler_type, prompt>>]_vars

\* C20 amended: no step of a session changes extra_budget,
\* memory_cycler_type or the prompt, and max_length is changed by the
\* change_settings command only.
C20_OnlyChangeSettingsMovesMaxLength ==
    [][/\ UNCHANGED <<extra_budget, memory_cycler_type, prompt>>
       /\ (max_length' # max_length => op' = "change_settings")]_vars

\* change_settings has lowered max_length under a transcript that by_sentence
\* had made fit
C20_Witness ==
    /\ op = "change_settings"
    /\ memory_cycler_type = "by_sentence"
    /\ Len(chat_history) > 1
    /\ ~Fits(chat_history)

\* C21: clear_all_memories returns normally and leaves chat_history equal to
\* [prompt], whatever the list held before (nothing, or no preamble); a
\* second clear finds [prompt] and leaves [prompt].
C21_ClearResetsToPrompt ==
    op = "clear_all_memories" => (ret = "none" /\ chat_history = <<prompt>>)

\* a clear of a list whose first entry was not the preamble
C21_Witness ==
    /\ op = "clear_all_memories"
    /\ prev # <<>> /\ prev[1] # prompt
    /\ chat_history = <<prompt>>

\* C22: a read of the transcript (get_encoded_chat_history, display_memories)
\* leaves chat_history as it was, and display_memories lists exactly the
\* entries 1..N in order, without the preamble at index 0.
C22_ReadsLeaveTranscript ==
    /\ op \in {"get_encoded_chat_history", "display_memories"}
           => chat_history = prev
    /\ op = "display_memories"
           => /\ Len(embed_fields) = IF prev = <<>> THEN 0 ELSE Len(prev) - 1
              /\ \A i \in 1..Len(embed_fields) :
                     /\ embed_fields[i].name = i
                     /\ embed_fields[i].value = prev[i + 1]

\* a display of a preamble and two entries
C22_Witness ==
    /\ op = "display_memories"
    /\ Len(chat_history) = 3 /\ chat_history[1] = prompt
    /\ Len(embed_fields) = 2

\* C23: the generate command never modifies chat_history: whatever the
\* outcome of the generation (success, an error code, an exception in
\* request_generation, empty output), the transcript after the command is the
\* transcript before it.
C23_GenerationLeavesTranscript ==
    op = "generation" => chat_history = prev

\* a generate command that got empty output while the transcript held more
\* than the preamble
C23_Witness ==
    /\ op = "generation" /\ pc = "idle" /\ ret = "empty_output"
    /\ Len(chat_history) >= 2

\* C24: after an autocomplete command whose generation succeeds, the
\* transcript equals the transcript before the command: the placeholder is
\* removed, the predicted text is not stored, no other entry is added or
\* removed.
C24_AutocompleteRestoresTranscript ==
    (op = "autocomplete" /\ pc = "idle" /\ ret = "succeeded")
        => chat_history = prev

\* C24 (as the code has it): after an autocomplete command whose generation
\* succeeds, the placeholder is gone and the predicted text is not stored; the
\* transcript is the one before the command less the oldest entries that the
\* append of the placeholder evicted, and it is the one before the command
\* when the eviction had nothing to remove (strategy "none", or the transcript
\* with the placeholder is within max_length - extra_budget).
C24_AutocompleteDropsOnlyEvicted ==
    (op = "autocomplete" /\ pc = "idle" /\ ret = "succeeded")
        => /\ prev # <<>>
           /\ \E k \in 0..(Len(prev) - 1) :
                 chat_history = <<prev[1]>> \o SubSeq(prev, k + 2, Len(prev))
           /\ (memory_cycler_type = "none" \/ Fits(prev \o <<user_placeholder>>))
                 => chat_history = prev

\* an autocomplete under by_sentence that gave back a transcript of several
\* entries
C24_Witness ==
    /\ op = "autocomplete" /\ pc = "idle" /\ ret = "succeeded"
    /\ memory_cycler_type = "by_sentence"
    /\ Len(prev) >= 2 /\ chat_history = prev

\* C25: when eviction is enabled (by_sentence or by_token), every
\* append_message returns normally and leaves what the selected strategy makes
\* of the transcript with the new message.
C25_AppendRunsStrategy ==
    (op = "append_message" /\ memory_cycler_type \in {"by_sentence", "by_token"})
        => /\ ret = "none"
           /\ \E m \in Messages :
                 LET appended == prev \o <<m>>
                 IN chat_history =
                        IF memory_cycler_type = "by_sentence"
                        THEN memory_cycle_by_sentence(max_length, appended,
                                 prompt_tensor_size, extra_budget).hist
                        ELSE memory_cycle_by_token(max_length, appended,
                                 prompt_tensor_size, extra_budget).hist

\* the text of a token stream once split('\n') has taken the newlines out
WithoutNewlines(text) == SelectSeq(text, LAMBDA c : c # "\n")

\* the pass truncated: the call was made on a transcript over the budget
ByTokenTruncated ==
    /\ op = "memory_cycle_by_token" /\ prev # <<>>
    /\ ~Fits(prev)

\* C26: when memory_cycle_by_token truncates, it discards exactly
\* keepFrom = max(0, L - (max_length - preambleTokenCount)) leading tokens of
\* the non-preamble token stream and keeps all later tokens: what is retained
\* is the most recent min(L, max_length - preambleTokenCount) tokens.
C26_ByTokenKeepsMostRecent ==
    ByTokenTruncated
        => LET stream == encode(Join(Tail(prev)))
               L == Len(stream)
               room == max_length - prompt_tensor_size
               keepFrom == IF L - room > 0 THEN L - room ELSE 0
           IN /\ ret = "none"
              /\ chat_history # <<>>
              /\ WithoutNewlines(Join(Tail(chat_history)))
                     = WithoutNewlines(decode(SubSeq(stream, keepFrom + 1, L)))

\* C27: the result of memory_cycle_by_sentence is the first entry of its input
\* (the preamble) followed by a contiguous suffix of the input's other
\* entries: entries go oldest first, every entry that stays is an entry of the
\* input as it was, in the same order.
C27_BySentenceKeepsSuffix ==
    (BySentenceRan /\ ret = "none")
        => \E input \in (IF op = "memory_cycle_by_sentence" THEN {prev}
                         ELSE {prev \o <<m>> : m \in Messages}) :
           \E k \in 0..(Len(input) - 1) :
               chat_history = <<input[1]>> \o SubSeq(input, k + 2, Len(input))

\* a pass that removed the oldest entries and kept a newer one
C27_Witness ==
    /\ op = "memory_cycle_by_sentence" /\ ret = "none"
    /\ Len(prev) >= 4 /\ prev[1] = prompt
    /\ prev[2] # prev[Len(prev)]
    /\ Len(chat_history) >= 2 /\ Len(chat_history) < Len(prev)

\* C28: during memory_cycle_by_sentence a warning is emitted for a removal if
\* and only if exactly 1 or 2 non-preamble entries remain immediately before
\* that removal; a removal made while 3 or more remain emits none.
C28_WarnsOnLastTwoRemovals ==
    (BySentenceRan /\ ret = "none")
        => LET removals == SelectSeq(logged, LAMBDA e : e.event = "removal")
               given == IF op = "append_message" THEN Len(prev) + 1 ELSE Len(prev)
           IN /\ Len(removals) = given - Len(chat_history)
              /\ \A i \in 1..Len(removals) :
                    /\ removals[i].remaining = given - i
                    /\ removals[i].warned <=> removals[i].remaining \in {1, 2}

\* a pass that removed three entries: the first without a warning, the next
\* two with one each
C28_Witness ==
    /\ op = "memory_cycle_by_sentence"
    /\ \E i \in 1..Len(logged) :
          /\ logged[i].event = "removal"
          /\ logged[i].remaining = 3 /\ ~logged[i].warned
    /\ \E i \in 1..Len(logged) :
          /\ logged[i].event = "removal"
          /\ logged[i].remaining = 1 /\ logged[i].warned

\* C29: when the preamble has more tokens than max_length, an eviction pass
\* of either strategy (by_sentence, by_token) logs the critical warning and
\* then completes without raising, and the first entry of the chat_history it
\* returns is the preamble, whatever the other entries hold.
C29_OversizedPromptPassCompletes ==
    /\ op \in {"memory_cycle_by_sentence", "memory_cycle_by_token"}
    /\ prev # <<>> /\ prev[1] = prompt
    /\ prompt_tensor_size > max_length
    => /\ Critical \in {logged[i] : i \in 1..Len(logged)}
       /\ ret = "none"
       /\ chat_history # <<>>
       /\ chat_history[1] = prompt

\* C30: a generation is committed only if its detokenized text is non-empty:
\* a response whose decoded text is empty or whitespace is handled as empty
\* output, so chat_history never holds an entry "{speaker}: " with an empty
\* body.
C30_NoEmptyBodyEntry ==
    /\ \A i \in 1..Len(chat_history) : chat_history[i] # bot_entry(<<>>)
    /\ (pc = "idle" /\ op \in MessageReplies /\ ret = "succeeded")
           => detokenized_bot_message(bot_response) # <<>>

\* C31: under sequential handling, after any sequence of message turns (with
\* any generation outcome), autocomplete, regenerate_response and
\* clear_memories commands, and for any budget, chat_history is non-empty and
\* its first entry is the preamble.
C31_PreambleStaysFirst ==
    chat_history # <<>> /\ chat_history[1] = prompt

\* the entries a completed turn leaves: the user turn and the bot response
UserTurns == {user_message(c) : c \in SessionContents}
BotResponses == {bot_entry(decode(g)) : g \in Generations}

\* C32: regenerate_response changes the transcript only when all its
\* conditions hold; when one fails the transcript is left unchanged, and when
\* they hold it removes exactly the last bot response and the user turn it
\* answered before it starts one new generation for that user message.
C32_RegenerateRemovesLastTurn ==
    [][ (pc = "idle" /\ op' = "regenerate_response")
            => IF ret' \in {"refused", "TypeError"}
               THEN chat_history' = chat_history
               ELSE LET n == Len(chat_history)
                    IN /\ n >= 3
                       /\ chat_history[n] \in BotResponses
                       /\ chat_history[n - 1] \in UserTurns
                       /\ memory_cycler_type = "none"
                              => /\ ret' = "pending"
                                 /\ \E c \in SessionContents :
                                       chat_history' =
                                           SubSeq(chat_history, 1, n - 2)
                                               \o <<user_message(c), bot_placeholder>>
      ]_vars

\* how a request for a generation can end
RequestOutcomes == {Outcome(reply) : reply \in BackendReplies}

\* C33: a generation request issues exactly one POST /generate, whatever its
\* outcome: a handler posts once, from its start, and the return of that POST
\* ends the handler (no retry after a failed or empty generation); a pending
\* request is ended by what the backend does and by nothing else (no deadline
\* of the handler's own).
C33_OnePostPerRequest ==
    [][ /\ pc' = "requested" => pc = "idle"
        /\ pc = "requested"
               => /\ pc' = "idle"
                  /\ op' = op
                  /\ ret' \in RequestOutcomes
      ]_vars

\* a message turn whose generation timed out has been handled, and the
\* handler is over
C33_Witness ==
    /\ pc = "idle" /\ op = "on_message" /\ ret = "timeout"
    /\ bot_response = IntCode(0)

\* C34: memory_cycle_by_sentence always terminates: on a transcript with N
\* non-preamble entries its loop makes at most N removals, and every
\* iteration leaves one non-preamble entry fewer than it found.
C34_BySentenceLoopBounded ==
    (BySentenceRan /\ (op = "append_message" \/ prev # <<>>))
        => LET removals == SelectSeq(logged, LAMBDA e : e.event = "removal")
               N == IF op = "append_message" THEN Len(prev) ELSE Len(prev) - 1
           IN /\ ret = "none"
              /\ Len(removals) <= N
              /\ \A i \in 1..Len(removals) : removals[i].remaining >= 1
              /\ \A i \in 2..Len(removals) :
                    removals[i].remaining = removals[i - 1].remaining - 1

\* a pass that removed every one of three non-preamble entries
C34_Witness ==
    /\ op = "memory_cycle_by_sentence" /\ ret = "none"
    /\ Len(prev) = 4 /\ Len(chat_history) = 1
    /\ Len(SelectSeq(logged, LAMBDA e : e.event = "removal")) = 3

\* C35: whenever memory_cycle_by_token decides to truncate, the slice it asks
\* for is valid: the start offset abs(max_length - preambleTokenCount) is at
\* most L and the retained length L - start is at least 0; the function never
\* fails between emptying the list and putting the preamble back.
C35_ByTokenSliceValid ==
    ByTokenTruncated
        => LET L == Len(encode(Join(Tail(prev))))
               start_of_truncated_history == abs(max_length - prompt_tensor_size)
           IN /\ start_of_truncated_history <= L
              /\ L - start_of_truncated_history >= 0
              /\ ret = "none"
              /\ chat_history # <<>> /\ chat_history[1] = prev[1]

\* C36: when memory_cycle_by_token truncates, the re-split into entries loses
\* no retained text: the concatenation of the resulting non-preamble entries
\* is the detokenized retained text, newlines between turns included, and no
\* entry is the empty string.
C36_ByTokenSplitKeepsText ==
    (ByTokenTruncated /\ ret = "none")
        => LET stream == encode(Join(Tail(prev)))
               start_of_truncated_history == abs(max_length - prompt_tensor_size)
               retained == decode(SubSeq(stream, start_of_truncated_history + 1,
                                         Len(stream)))
           IN /\ Join(Tail(chat_history)) = retained
              /\ \A i \in 2..Len(chat_history) : chat_history[i] # <<>>

\* the entries of a transcript other than the preamble
NonPreamble(hist) ==
    IF hist # <<>> /\ hist[1] = prompt THEN Tail(hist) ELSE hist

\* C37: with policy by_sentence, every payload sent to POST /generate for a
\* chat turn encodes the transcript as it is when the request is sent, and
\* that transcript is within max_length - extra_budget (non-preamble tokens
\* plus preamble tokens) or is the preamble alone, after any sequence of turns
\* and change_settings commands.
C37_PayloadWithinBudget ==
    (pc = "requested" /\ op \in MessageReplies /\ memory_cycler_type = "by_sentence")
        => /\ serial_chat_history = get_encoded_chat_history(chat_history)
           /\ \/ chat_history = <<prompt>>
              \/ token_count(NonPreamble(chat_history)) + prompt_tensor_size
                     <= max_length - extra_budget

\* C38: a message authored by the bot itself, or a system message, never
\* causes a generation request and never changes chat_history.
C38_OwnAndSystemMessagesIgnored ==
    /\ \A m \in IncomingMessages :
          (m.author = "bot" \/ m.is_system) => on_message_filter(m) = "ignored"
    /\ (op = "on_message" /\ ret = "ignored")
          => /\ pc = "idle"
             /\ chat_history = prev
             /\ serial_chat_history = <<>>

\* a message of the bot's own or of the system seen while the transcript
\* holds more than the preamble
C38_Witness ==
    /\ op = "on_message" /\ ret = "ignored"
    /\ Len(chat_history) >= 2

\* C39: with conditional_response enabled, an incoming message of a user
\* starts a generation turn exactly when the bot is mentioned, or the message
\* replies to one of the bot's messages, or one of bot_nicknames occurs in its
\* content; otherwise chat_history is unchanged.
\* (A reply to an uncached message is compared only where the mention or the
\* nickname already decides.)
C39_ConditionalTurnExactlyWhenAddressed ==
    (conditional_response /\ op = "on_message")
        => /\ \A m \in IncomingMessages :
                  (/\ m.author = "user" /\ ~m.is_system
                   /\ (m.reference # "uncached" \/ m.mentioned \/ m.nickname))
                      => (on_message_filter(m) = "respond"
                              <=> \/ m.mentioned
                                  \/ m.reference = "cached_bot"
                                  \/ m.nickname)
           /\ ret \in {"silent", "ignored"} => (pc = "idle" /\ chat_history = prev)

====
